---- MODULE Spec2Model ----
(***************************************************************************)
(* Model of the influmojo backend: the phone-verification flow of          *)
(* src/src/routes/auth.js (send-phone-verification-code, verify-phone-code),*)
(* the bearer-token endpoints of auth.js and of the profile router         *)
(* (src/unnamed/part_001).  Time is in milliseconds, as Date.now().        *)
(***************************************************************************)
EXTENDS Integers, Sequences, FiniteSets, TLC

VARIABLES
  now,                 \* the wall clock, Date.now() / new Date()
  twilioConfigured,    \* the three TWILIO_* environment secrets are all set
  phoneVerifications,  \* table PhoneVerification, in insertion order
  users,               \* table User, in insertion order
  creatorProfiles,     \* table CreatorProfile
  packages,            \* table Package
  portfolioItems,      \* table PortfolioItem
  kycs,                \* table KYC
  req,                 \* the request handled last
  res,                 \* the response sent for it
  pc,                  \* concurrent handlers: position of each request
  loc                  \* concurrent handlers: locals of each request

vars == <<now, twilioConfigured, phoneVerifications, users, creatorProfiles,
          packages, portfolioItems, kycs, req, res, pc, loc>>

profileTables == <<creatorProfiles, packages, portfolioItems, kycs>>
concVars == <<pc, loc>>

---------------------------------------------------------------------------
(* Bounds of the model *)

MaxRows == 2
NumHandlers == 2
MaxItems == 1

(* Program constants *)

CooldownMs == 60000
ExpiryMs == 600000
OtpLength == 6
NULL == -1

(* Inputs *)

ValidPhones == {"+15551234567", "+919876543210"}
AllPhones == ValidPhones \cup {"not-a-phone"}
GeneratedOtps == {"100000", "482913"}
CodeInputs == GeneratedOtps \cup {"12345"}
OpaqueTokens == {"a3f1"}
NoName == ""
FullNames == {NoName}
\* The instants at which requests are observed: around the 60 s cooldown and the 10 min expiry.
Instants == {0, 59999, 600000}

IsMobilePhone(phone) == phone \in ValidPhones
IsLength6(code) == Len(code) = OtpLength

---------------------------------------------------------------------------
(* Requests and responses *)

NoCode == ""
NoEmail == ""
NoUser == 0
NoError == "none"

Request(op, phone, code) == [op |-> op, phone |-> phone, code |-> code]

Response(status, error, userId) ==
  [status |-> status, error |-> error, userId |-> userId]

\* generateToken(userId): the session token is bound to the user's id.
GenerateToken(userId) == userId

\* What the provider may answer: it is called only for a request that passed
\* validation, and only when the three TWILIO_* secrets are set.
StartOutcomes(phone) ==
  IF twilioConfigured /\ IsMobilePhone(phone)
    THEN {"sent", "error429", "error"} ELSE {"not_called"}

CheckOutcomes(phone, code) ==
  IF twilioConfigured /\ IsMobilePhone(phone) /\ IsLength6(code)
    THEN {"approved", "pending", "error429", "error"} ELSE {"not_called"}

\* Mutant: an approval that does not set twilioVerification.
TwilioVerification_never(outcome) == FALSE

\* verificationCheck.status === 'approved': the provider verified the code.
TwilioVerification(outcome) == outcome = "approved"

\* Mutant: a non-approved decision that falls through to the database check.
TwilioDenied_never(outcome) == FALSE

\* Mutant: a provider error handled like a non-approved decision.
TwilioDenied_onError(outcome) == outcome \in {"pending", "error429", "error"}

\* The provider returned a decision other than 'approved': the handler returns at once.
TwilioDenied(outcome) == outcome = "pending"

---------------------------------------------------------------------------
(* PhoneVerification queries *)

RowIds == 1..Len(phoneVerifications)

\* Mutant: lt in place of gt in the cooldown lookup.
RecentVerification_lt(phone, t) ==
  {i \in RowIds : /\ phoneVerifications[i].phone = phone
                  /\ phoneVerifications[i].created_at < t - CooldownMs}

\* findFirst({ phone, created_at: { gt: now - 60 s } })
RecentVerification(phone, t) ==
  {i \in RowIds : /\ phoneVerifications[i].phone = phone
                  /\ phoneVerifications[i].created_at > t - CooldownMs}

\* expires_at: new Date(Date.now() + 10 * 60 * 1000), computed by the handler.
ExpiresAt(t) == t + ExpiryMs

\* phoneVerification.create: created_at defaults to the insertion time t.
NewVerification(phone, otp, token, expires_at, t) ==
  [id |-> Len(phoneVerifications) + 1, phone |-> phone, code |-> otp, token |-> token,
   created_at |-> t, expires_at |-> expires_at, verified_at |-> NULL]

\* Mutant: gte in place of gt in the expiry test.
MatchingVerifications_gte(phone, code, t) ==
  {i \in RowIds : /\ phoneVerifications[i].phone = phone
                  /\ phoneVerifications[i].code = code
                  /\ phoneVerifications[i].expires_at >= t
                  /\ phoneVerifications[i].verified_at = NULL}

\* Mutant: the lookup without the verified_at filter.
MatchingVerifications_anyState(phone, code, t) ==
  {i \in RowIds : /\ phoneVerifications[i].phone = phone
                  /\ phoneVerifications[i].code = code
                  /\ phoneVerifications[i].expires_at > t}

\* where { phone, code, expires_at: { gt: now }, verified_at: null }
MatchingVerifications(phone, code, t) ==
  {i \in RowIds : /\ phoneVerifications[i].phone = phone
                  /\ phoneVerifications[i].code = code
                  /\ phoneVerifications[i].expires_at > t
                  /\ phoneVerifications[i].verified_at = NULL}

\* orderBy { created_at: 'desc' }: the rows findFirst may return (ties are the database's choice).
FindVerification(phone, code, t) ==
  LET S == MatchingVerifications(phone, code, t)
  IN {i \in S : \A j \in S : phoneVerifications[j].created_at <= phoneVerifications[i].created_at}

\* phoneVerification.update({ where: { id }, data: { verified_at: now } })
MarkVerified(i, t) ==
  [phoneVerifications EXCEPT ![i] = [@ EXCEPT !.verified_at = t]]

---------------------------------------------------------------------------
(* User queries *)

UserIds == 1..Len(users)

\* user.findUnique({ where: { phone } })
FindUserByPhone(phone) == {i \in UserIds : users[i].phone = phone}

\* user.create on the first successful verification of a phone
NewUser(phone, fullName) ==
  [id |-> Len(users) + 1, phone |-> phone, phone_verified |-> TRUE,
   name |-> IF fullName # NoName THEN fullName ELSE "User",
   last_login_at |-> NULL, email |-> NoEmail, email_verified |-> FALSE,
   onboarding_step |-> 0]

\* Mutant: the update writes the name as the create does, default included.
LoggedIn_defaultName(u, fullName, t) ==
  [u EXCEPT !.phone_verified = TRUE, !.last_login_at = t,
            !.name = IF fullName # NoName THEN fullName ELSE "User"]

\* user.update on a later verification
LoggedIn(u, fullName, t) ==
  [u EXCEPT !.phone_verified = TRUE, !.last_login_at = t,
            !.name = IF fullName # NoName THEN fullName ELSE @]

\* The id of the user found or created, and the User table afterwards.
FindOrCreateUserId(phone) ==
  IF FindUserByPhone(phone) = {} THEN Len(users) + 1
  ELSE CHOOSE i \in FindUserByPhone(phone) : TRUE

FindOrCreateUser(phone, fullName, t) ==
  IF FindUserByPhone(phone) = {} THEN Append(users, NewUser(phone, fullName))
  ELSE [users EXCEPT ![FindOrCreateUserId(phone)] = LoggedIn(@, fullName, t)]

---------------------------------------------------------------------------
(* The response of send-phone-verification-code once the row is stored *)

\* Mutant: a failed dispatch surfaced to the caller as an internal error.
SendResponse_surfaced(outcome) ==
  IF outcome \in {"error429", "error"}
    THEN Response(500, "Failed to send verification code", NoUser)
    ELSE Response(200, NoError, NoUser)

\* res.json({ success: true, ... }) after the dispatch, whatever smsSent is.
SendResponse(outcome) == Response(200, NoError, NoUser)

---------------------------------------------------------------------------
(* The clock *)

Tick(t) ==
  /\ t > now
  /\ now' = t
  /\ UNCHANGED <<twilioConfigured, phoneVerifications, users, profileTables,
                 req, res, concVars>>

---------------------------------------------------------------------------
(* POST /send-phone-verification-code, handled in one piece *)

SendPhoneVerificationCode(phone, otp, token, outcome) ==
  /\ req' = Request("send-phone-verification-code", phone, NoCode)
  /\ IF ~IsMobilePhone(phone)
       THEN /\ res' = Response(400, "Validation failed", NoUser)
            /\ UNCHANGED phoneVerifications
     ELSE IF RecentVerification(phone, now) # {}
       THEN /\ res' = Response(429, "Please wait 1 minute before requesting another code", NoUser)
            /\ UNCHANGED phoneVerifications
     ELSE /\ Len(phoneVerifications) < MaxRows
          /\ phoneVerifications' = Append(phoneVerifications, NewVerification(phone, otp, token, ExpiresAt(now), now))
          /\ res' = SendResponse(outcome)
  /\ UNCHANGED <<now, twilioConfigured, users, profileTables, concVars>>

---------------------------------------------------------------------------
(* POST /verify-phone-code, handled in one piece *)

VerifyPhoneCode(phone, code, fullName, outcome) ==
  /\ req' = Request("verify-phone-code", phone, code)
  /\ IF ~IsMobilePhone(phone) \/ ~IsLength6(code)
       THEN /\ res' = Response(400, "Validation failed", NoUser)
            /\ UNCHANGED <<phoneVerifications, users>>
     ELSE IF TwilioVerification(outcome)
       THEN /\ UNCHANGED phoneVerifications
            /\ users' = FindOrCreateUser(phone, fullName, now)
            /\ res' = Response(200, NoError, GenerateToken(FindOrCreateUserId(phone)))
     ELSE IF TwilioDenied(outcome)
       THEN /\ res' = Response(400, "Invalid verification code", NoUser)
            /\ UNCHANGED <<phoneVerifications, users>>
     ELSE IF FindVerification(phone, code, now) = {}
       THEN /\ res' = Response(400, "Invalid or expired verification code", NoUser)
            /\ UNCHANGED <<phoneVerifications, users>>
     ELSE /\ \E i \in FindVerification(phone, code, now) :
               phoneVerifications' = MarkVerified(i, now)
          /\ users' = FindOrCreateUser(phone, fullName, now)
          /\ res' = Response(200, NoError, GenerateToken(FindOrCreateUserId(phone)))
  /\ UNCHANGED <<now, twilioConfigured, profileTables, concVars>>

---------------------------------------------------------------------------
(* The phone-verification flow, one request at a time *)

Init ==
  /\ now = 0
  /\ twilioConfigured \in BOOLEAN
  /\ phoneVerifications = <<>>
  /\ users = <<>>
  /\ creatorProfiles = <<>>
  /\ packages = <<>>
  /\ portfolioItems = <<>>
  /\ kycs = <<>>
  /\ req = Request("none", "", NoCode)
  /\ res = Response(0, NoError, NoUser)
  /\ pc = <<>>
  /\ loc = <<>>

Next ==
  \/ \E t \in Instants : Tick(t)
  \/ \E phone \in AllPhones, otp \in GeneratedOtps, token \in OpaqueTokens :
       \E outcome \in StartOutcomes(phone) :
         SendPhoneVerificationCode(phone, otp, token, outcome)
  \/ \E phone \in AllPhones, code \in CodeInputs, fullName \in FullNames :
       \E outcome \in CheckOutcomes(phone, code) :
         VerifyPhoneCode(phone, code, fullName, outcome)

Spec == Init /\ [][Next]_vars

---------------------------------------------------------------------------
(* POST /send-phone-verification-code, handled concurrently: each handler runs *)
(* from one await to the next, and the database and the provider act between. *)

Handlers == 1..NumHandlers

IdleLocals ==
  [phone |-> "", since |-> 0, snapshot |-> 0, otp |-> NoCode, token |-> "",
   expires_at |-> 0, rowId |-> 0, outcome |-> "not_called",
   response |-> Response(0, NoError, NoUser)]

\* The request arrives: the handler computes now - 60 s and issues the cooldown lookup.
SendReceive(h, phone) ==
  /\ pc[h] = "idle"
  /\ pc' = [pc EXCEPT ![h] = "lookup"]
  /\ loc' = [loc EXCEPT ![h] = [@ EXCEPT !.phone = phone, !.since = now]]
  /\ UNCHANGED <<now, twilioConfigured, phoneVerifications, users, profileTables, req, res>>

\* The lookup reads the table; the handler answers 429, or draws the code and the
\* token and issues the insert.  snapshot is the number of rows the lookup read.
SendLookup(h, otp, token) ==
  /\ pc[h] = "lookup"
  /\ IF RecentVerification(loc[h].phone, loc[h].since) # {}
       THEN /\ pc' = [pc EXCEPT ![h] = "done"]
            /\ loc' = [loc EXCEPT ![h] = [@ EXCEPT
                 !.snapshot = Len(phoneVerifications),
                 !.response = Response(429, "Please wait 1 minute before requesting another code", NoUser)]]
       ELSE /\ pc' = [pc EXCEPT ![h] = "create"]
            /\ loc' = [loc EXCEPT ![h] = [@ EXCEPT
                 !.snapshot = Len(phoneVerifications),
                 !.otp = otp, !.token = token, !.expires_at = ExpiresAt(now)]]
  /\ UNCHANGED <<now, twilioConfigured, phoneVerifications, users, profileTables, req, res>>

\* The insert takes effect; the handler then calls the provider when it is
\* configured, and otherwise logs the code and answers.
SendCreate(h) ==
  /\ pc[h] = "create"
  /\ phoneVerifications' = Append(phoneVerifications,
       NewVerification(loc[h].phone, loc[h].otp, loc[h].token, loc[h].expires_at, now))
  /\ IF twilioConfigured
       THEN /\ pc' = [pc EXCEPT ![h] = "dispatch"]
            /\ loc' = [loc EXCEPT ![h] = [@ EXCEPT !.rowId = Len(phoneVerifications) + 1]]
       ELSE /\ pc' = [pc EXCEPT ![h] = "done"]
            /\ loc' = [loc EXCEPT ![h] = [@ EXCEPT
                 !.rowId = Len(phoneVerifications) + 1,
                 !.response = SendResponse("not_called")]]
  /\ UNCHANGED <<now, twilioConfigured, users, profileTables, req, res>>

\* The provider's start-verification call returns or throws; the handler answers.
SendDispatch(h, outcome) ==
  /\ pc[h] = "dispatch"
  /\ pc' = [pc EXCEPT ![h] = "done"]
  /\ loc' = [loc EXCEPT ![h] = [@ EXCEPT !.outcome = outcome, !.response = SendResponse(outcome)]]
  /\ UNCHANGED <<now, twilioConfigured, phoneVerifications, users, profileTables, req, res>>

InitConc ==
  /\ now = 0
  /\ twilioConfigured \in BOOLEAN
  /\ phoneVerifications = <<>>
  /\ users = <<>>
  /\ creatorProfiles = <<>>
  /\ packages = <<>>
  /\ portfolioItems = <<>>
  /\ kycs = <<>>
  /\ req = Request("none", "", NoCode)
  /\ res = Response(0, NoError, NoUser)
  /\ pc = [h \in Handlers |-> "idle"]
  /\ loc = [h \in Handlers |-> IdleLocals]

\* The race does not depend on the code drawn: one code.
ConcOtps == {"482913"}

NextConc ==
  \/ \E t \in Instants : Tick(t)
  \/ \E h \in Handlers, phone \in ValidPhones : SendReceive(h, phone)
  \/ \E h \in Handlers, otp \in ConcOtps, token \in OpaqueTokens : SendLookup(h, otp, token)
  \/ \E h \in Handlers : SendCreate(h)
  \/ \E h \in Handlers, outcome \in {"sent", "error429", "error"} : SendDispatch(h, outcome)

SpecConc == InitConc /\ [][NextConc]_vars

---------------------------------------------------------------------------
(* Bearer tokens *)

NoToken == [userId |-> NoUser, kind |-> "none"]
TokenKinds == {"valid", "expired", "malformed", "wrong-secret"}
TokenUserIds == {1, 2}
BearerTokens == {NoToken} \cup [userId : TokenUserIds, kind : TokenKinds]

\* jwt.verify(token, JWT_SECRET) returns the payload of a well-formed, unexpired
\* token signed with the secret, and throws for every other token.
JwtVerify(token) == token.kind = "valid"

\* user.findUnique({ where: { id } })
FindUserById(id) == {i \in UserIds : users[i].id = id}

ProfileRequest(op, token, bodyOk) == [op |-> op, token |-> token, bodyOk |-> bodyOk]

ValidationFailed == Response(400, "Validation failed", NoUser)
NoTokenProvided == Response(401, "No token provided", NoUser)
InvalidToken == Response(401, "Invalid token", NoUser)
UserNotFound == Response(404, "User not found", NoUser)
CreatorProfileNotFound == Response(400, "Creator profile not found", NoUser)
Ok == Response(200, NoError, NoUser)

\* authenticateToken: the response it sends, or Ok when it calls next().
AuthenticateToken(token) ==
  IF token = NoToken THEN NoTokenProvided
  ELSE IF ~JwtVerify(token) THEN InvalidToken
  ELSE Ok

---------------------------------------------------------------------------
(* POST /api/auth/update-name and GET /api/auth/profile *)

UpdateName(token, name) ==
  /\ req' = ProfileRequest("update-name", token, name # NoName)
  /\ IF name = NoName
       THEN res' = ValidationFailed /\ UNCHANGED users
     ELSE IF token = NoToken
       THEN res' = NoTokenProvided /\ UNCHANGED users
     ELSE IF ~JwtVerify(token) \/ FindUserById(token.userId) = {}
       \* jwt.verify or user.update throws inside the try: the catch answers 500
       THEN res' = Response(500, "Failed to update name", NoUser) /\ UNCHANGED users
     ELSE /\ users' = [i \in UserIds |->
                         IF users[i].id = token.userId
                           THEN [users[i] EXCEPT !.name = name] ELSE users[i]]
          /\ res' = Ok
  /\ UNCHANGED <<now, twilioConfigured, phoneVerifications, profileTables, concVars>>

AuthProfile(token) ==
  /\ req' = ProfileRequest("auth-profile", token, TRUE)
  /\ res' = IF token = NoToken THEN NoTokenProvided
            ELSE IF ~JwtVerify(token) THEN InvalidToken
            ELSE IF FindUserById(token.userId) = {} THEN UserNotFound
            ELSE Ok
  /\ UNCHANGED <<now, twilioConfigured, phoneVerifications, users, profileTables, concVars>>

---------------------------------------------------------------------------
(* The profile router: validateRequest, then authenticateToken, then the handler *)

ProfileIds == 1..Len(creatorProfiles)

\* creatorProfile.findUnique({ where: { user_id } })
FindCreatorProfile(userId) == {i \in ProfileIds : creatorProfiles[i].user_id = userId}

\* creatorProfile.upsert({ where: { user_id }, update, create }); part names the
\* fields written: "basic" (gender, birth date, location) or "prefs" (categories, bio, interests).
UpsertCreatorProfile(userId, part) ==
  IF FindCreatorProfile(userId) = {}
    THEN Append(creatorProfiles,
           [id |-> Len(creatorProfiles) + 1, user_id |-> userId,
            basic |-> part = "basic", prefs |-> part = "prefs"])
    ELSE [i \in ProfileIds |->
            IF creatorProfiles[i].user_id = userId
              THEN [creatorProfiles[i] EXCEPT ![part] = TRUE] ELSE creatorProfiles[i]]

\* What the router answers before the handler runs, or Ok.
Gate(token, bodyOk) == IF ~bodyOk THEN ValidationFailed ELSE AuthenticateToken(token)

UpdateBasicInfo(token, bodyOk, email) ==
  /\ req' = ProfileRequest("update-basic-info", token, bodyOk)
  /\ IF Gate(token, bodyOk) # Ok
       THEN res' = Gate(token, bodyOk) /\ UNCHANGED <<users, creatorProfiles>>
     ELSE IF FindUserById(token.userId) = {}
       THEN /\ res' = Response(500, "Failed to update basic info", NoUser)
            /\ UNCHANGED <<users, creatorProfiles>>
     ELSE /\ users' = [i \in UserIds |->
                         IF users[i].id = token.userId
                           THEN [users[i] EXCEPT !.email = email, !.email_verified = TRUE,
                                                 !.onboarding_step = 2]
                           ELSE users[i]]
          /\ creatorProfiles' = UpsertCreatorProfile(token.userId, "basic")
          /\ res' = Ok
  /\ UNCHANGED <<now, twilioConfigured, phoneVerifications, packages, portfolioItems, kycs, concVars>>

\* For a token whose user is not stored, the upsert is rejected by the foreign key
\* of CreatorProfile.user_id, so no profile is stored and the catch answers 500.
UpdatePreferences(token, bodyOk) ==
  /\ req' = ProfileRequest("update-preferences", token, bodyOk)
  /\ IF Gate(token, bodyOk) # Ok
       THEN res' = Gate(token, bodyOk) /\ UNCHANGED <<users, creatorProfiles>>
     ELSE IF FindUserById(token.userId) = {}
       THEN /\ res' = Response(500, "Failed to update preferences", NoUser)
            /\ UNCHANGED <<users, creatorProfiles>>
     ELSE /\ creatorProfiles' = UpsertCreatorProfile(token.userId, "prefs")
          /\ users' = [i \in UserIds |->
                         IF users[i].id = token.userId
                           THEN [users[i] EXCEPT !.onboarding_step = 1] ELSE users[i]]
          /\ res' = Ok
  /\ UNCHANGED <<now, twilioConfigured, phoneVerifications, packages, portfolioItems, kycs, concVars>>

\* The id of the creator profile of a user who has one.
CreatorIdOf(userId) == creatorProfiles[CHOOSE i \in FindCreatorProfile(userId) : TRUE].id

CreatePackage(token, bodyOk) ==
  /\ req' = ProfileRequest("create-package", token, bodyOk)
  /\ IF Gate(token, bodyOk) # Ok
       THEN res' = Gate(token, bodyOk) /\ UNCHANGED packages
     ELSE IF FindCreatorProfile(token.userId) = {}
       THEN res' = CreatorProfileNotFound /\ UNCHANGED packages
     ELSE /\ Len(packages) < MaxItems
          /\ packages' = Append(packages,
               [id |-> Len(packages) + 1, creator_id |-> CreatorIdOf(token.userId),
                package_type |-> "content", currency |-> "INR", status |-> "active"])
          /\ res' = Ok
  /\ UNCHANGED <<now, twilioConfigured, phoneVerifications, users, creatorProfiles,
                 portfolioItems, kycs, concVars>>

CreatePortfolio(token, bodyOk) ==
  /\ req' = ProfileRequest("create-portfolio", token, bodyOk)
  /\ IF Gate(token, bodyOk) # Ok
       THEN res' = Gate(token, bodyOk) /\ UNCHANGED portfolioItems
     ELSE IF FindCreatorProfile(token.userId) = {}
       THEN res' = CreatorProfileNotFound /\ UNCHANGED portfolioItems
     ELSE /\ Len(portfolioItems) < MaxItems
          /\ portfolioItems' = Append(portfolioItems,
               [id |-> Len(portfolioItems) + 1, creator_id |-> CreatorIdOf(token.userId),
                status |-> "active"])
          /\ res' = Ok
  /\ UNCHANGED <<now, twilioConfigured, phoneVerifications, users, creatorProfiles,
                 packages, kycs, concVars>>

\* documentType.toUpperCase()
ToUpperCase(documentType) == IF documentType = "aadhaar" THEN "AADHAAR" ELSE "PAN"

KycIds == 1..Len(kycs)

SubmitKyc(token, bodyOk, documentType) ==
  /\ req' = ProfileRequest("submit-kyc", token, bodyOk)
  /\ IF Gate(token, bodyOk) # Ok
       THEN res' = Gate(token, bodyOk) /\ UNCHANGED kycs
     ELSE IF FindCreatorProfile(token.userId) = {}
       THEN res' = CreatorProfileNotFound /\ UNCHANGED kycs
     ELSE /\ kycs' =
               IF \E k \in KycIds : kycs[k].creator_id = CreatorIdOf(token.userId)
                 THEN [k \in KycIds |->
                         IF kycs[k].creator_id = CreatorIdOf(token.userId)
                           THEN [kycs[k] EXCEPT !.document_type = ToUpperCase(documentType),
                                                !.status = "pending", !.submitted_at = now]
                           ELSE kycs[k]]
                 ELSE Append(kycs,
                        [id |-> Len(kycs) + 1, creator_id |-> CreatorIdOf(token.userId),
                         document_type |-> ToUpperCase(documentType),
                         status |-> "pending", submitted_at |-> now])
          /\ res' = Ok
  /\ UNCHANGED <<now, twilioConfigured, phoneVerifications, users, creatorProfiles,
                 packages, portfolioItems, concVars>>

GetProfile(token) ==
  /\ req' = ProfileRequest("profile", token, TRUE)
  /\ res' = IF AuthenticateToken(token) # Ok THEN AuthenticateToken(token)
            ELSE IF FindUserById(token.userId) = {} THEN UserNotFound
            ELSE Ok
  /\ UNCHANGED <<now, twilioConfigured, phoneVerifications, users, profileTables, concVars>>

---------------------------------------------------------------------------
(* The bearer-token endpoints, one request at a time, over registered users *)

Emails == {"asha@example.com"}
DocumentTypes == {"aadhaar", "pan"}

\* The User table after the first n phones were verified (verify-phone-code
\* creates each user as NewUser does); tokens of user 2 name a user that is not stored.
RegisteredUsers(n) ==
  [i \in 1..n |->
     [id |-> i, phone |-> IF i = 1 THEN "+15551234567" ELSE "+919876543210",
      phone_verified |-> TRUE, name |-> "User", last_login_at |-> NULL,
      email |-> NoEmail, email_verified |-> FALSE, onboarding_step |-> 0]]

InitProfile ==
  /\ now = 0
  /\ twilioConfigured \in BOOLEAN
  /\ phoneVerifications = <<>>
  /\ users = RegisteredUsers(1)
  /\ creatorProfiles = <<>>
  /\ packages = <<>>
  /\ portfolioItems = <<>>
  /\ kycs = <<>>
  /\ req = ProfileRequest("none", NoToken, TRUE)
  /\ res = Response(0, NoError, NoUser)
  /\ pc = <<>>
  /\ loc = <<>>

NextProfile ==
  \/ \E token \in BearerTokens, name \in {NoName, "Asha"} : UpdateName(token, name)
  \/ \E token \in BearerTokens : AuthProfile(token)
  \/ \E token \in BearerTokens, bodyOk \in BOOLEAN, email \in Emails :
       UpdateBasicInfo(token, bodyOk, email)
  \/ \E token \in BearerTokens, bodyOk \in BOOLEAN : UpdatePreferences(token, bodyOk)
  \/ \E token \in BearerTokens, bodyOk \in BOOLEAN : CreatePackage(token, bodyOk)
  \/ \E token \in BearerTokens, bodyOk \in BOOLEAN : CreatePortfolio(token, bodyOk)
  \/ \E token \in BearerTokens, bodyOk \in BOOLEAN, documentType \in DocumentTypes :
       SubmitKyc(token, bodyOk, documentType)
  \/ \E token \in BearerTokens : GetProfile(token)

SpecProfile == InitProfile /\ [][NextProfile]_vars

---------------------------------------------------------------------------
(* Properties of the phone-verification flow *)

SendOp == "send-phone-verification-code"
VerifyOp == "verify-phone-code"
RateLimited == Response(429, "Please wait 1 minute before requesting another code", NoUser)
InvalidOrExpired == Response(400, "Invalid or expired verification code", NoUser)
InvalidCode == Response(400, "Invalid verification code", NoUser)

\* Outcomes of the provider check after which the handler runs the database check.
LocalOutcomes == {"not_called", "error429", "error"}
ErrorOutcomes == {"error429", "error"}

\* Rows of (phone, code), whatever their state.
RowsOf(phone, code) ==
  {i \in RowIds : phoneVerifications[i].phone = phone /\ phoneVerifications[i].code = code}

\* C1: a request-code call for a phone that has a row created less than 60 seconds
\* before the call is answered 429 and persists no row.
C1_CooldownRejects ==
  [][(/\ now' = now
      /\ req'.op = SendOp
      /\ \E i \in RowIds : /\ phoneVerifications[i].phone = req'.phone
                           /\ now - phoneVerifications[i].created_at < CooldownMs)
     => (res' = RateLimited /\ phoneVerifications' = phoneVerifications)]_vars

\* C1 witness: a request 59999 ms after the row of its phone was created, answered 429.
C1_Witness ==
  /\ req.op = SendOp
  /\ res = RateLimited
  /\ \E i \in RowIds : /\ phoneVerifications[i].phone = req.phone
                       /\ now - phoneVerifications[i].created_at > 0
                       /\ now - phoneVerifications[i].created_at < CooldownMs

\* C2 (as claimed): with the provider not configured, once verify-code succeeded for
\* (phone, code), that is once a row of (phone, code) is verified, every later
\* verify-code with the same (phone, code) fails with invalid-or-expired.
C2_SecondVerifyFails ==
  [][(/\ ~twilioConfigured
      /\ now' = now
      /\ req'.op = VerifyOp
      /\ \E i \in RowsOf(req'.phone, req'.code) : phoneVerifications[i].verified_at # NULL)
     => res' = InvalidOrExpired]_vars

\* A verify-code request that passed validation is handled by this step.
VerifyHandled ==
  /\ now' = now
  /\ req'.op = VerifyOp
  /\ IsMobilePhone(req'.phone)
  /\ IsLength6(req'.code)

\* The step handles the request with the given outcome of the provider check.
VerifiedWith(outcome) ==
  \E fullName \in FullNames : VerifyPhoneCode(req'.phone, req'.code, fullName, outcome)

\* C3: on the local path, verify-code for a (phone, code) all of whose rows have
\* expires_at <= now fails with invalid-or-expired, marks no row, changes no user and
\* issues no token; and every row expires 10 minutes after its creation.
C3_ExpiredNeverVerifies ==
  [][/\ \A i \in 1..Len(phoneVerifications') :
          phoneVerifications'[i].expires_at = phoneVerifications'[i].created_at + ExpiryMs
     /\ (/\ VerifyHandled
         /\ \A i \in RowsOf(req'.phone, req'.code) : phoneVerifications[i].expires_at <= now
         /\ \E outcome \in LocalOutcomes : VerifiedWith(outcome))
        => (/\ res' = InvalidOrExpired
            /\ phoneVerifications' = phoneVerifications
            /\ users' = users)]_vars

\* C3 witness: a verify-code whose only rows of (phone, code) are unverified and
\* expired, answered invalid-or-expired.
C3_Witness ==
  /\ req.op = VerifyOp
  /\ res = InvalidOrExpired
  /\ RowsOf(req.phone, req.code) # {}
  /\ \A i \in RowsOf(req.phone, req.code) :
       /\ phoneVerifications[i].verified_at = NULL
       /\ phoneVerifications[i].expires_at <= now

\* C4: with the provider configured, a non-approved decision fails verify-code with
\* invalid-code at once: no row is marked, no user created or updated, no token issued.
C4_DeniedFailsAtOnce ==
  [][(twilioConfigured /\ VerifyHandled /\ VerifiedWith("pending"))
     => (/\ res' = InvalidCode
         /\ phoneVerifications' = phoneVerifications
         /\ users' = users)]_vars

\* C4 witness: invalid-code answered although a matching, unexpired, unverified row exists.
C4_Witness ==
  /\ twilioConfigured
  /\ req.op = VerifyOp
  /\ res = InvalidCode
  /\ MatchingVerifications(req.phone, req.code, now) # {}

\* C5: with the provider configured, an approved decision makes verify-code succeed
\* with a token of the user of that phone, and leaves every PhoneVerification row unchanged.
C5_ApprovedLeavesRows ==
  [][(twilioConfigured /\ VerifyHandled /\ VerifiedWith("approved"))
     => (/\ res'.status = 200
         /\ res'.userId # NoUser
         /\ \E u \in 1..Len(users') :
              /\ users'[u].phone = req'.phone
              /\ users'[u].phone_verified
              /\ GenerateToken(users'[u].id) = res'.userId
         /\ phoneVerifications' = phoneVerifications)]_vars

\* C5 witness: a successful verify-code while a matching local row exists and no row
\* at all has verified_at set.
C5_Witness ==
  /\ twilioConfigured
  /\ req.op = VerifyOp
  /\ res.status = 200
  /\ MatchingVerifications(req.phone, req.code, now) # {}
  /\ \A i \in RowIds : phoneVerifications[i].verified_at = NULL

\* C6: with the provider configured, a provider error does not fail verify-code with
\* invalid-code: the step is one the not-configured handler takes for the same call,
\* and it succeeds exactly when a matching, unexpired, unverified row exists.
C6_ErrorFallsBack ==
  [][(twilioConfigured /\ VerifyHandled /\ \E outcome \in ErrorOutcomes : VerifiedWith(outcome))
     => (/\ VerifiedWith("not_called")
         /\ res' # InvalidCode
         /\ res'.status = 200 <=> MatchingVerifications(req'.phone, req'.code, now) # {}
         /\ res'.status # 200 => res' = InvalidOrExpired)]_vars

\* C6 witness: provider configured, and the row of the request was marked verified now.
C6_Witness ==
  /\ twilioConfigured
  /\ req.op = VerifyOp
  /\ res.status = 200
  /\ \E i \in RowsOf(req.phone, req.code) : phoneVerifications[i].verified_at = now

---------------------------------------------------------------------------
(* Properties of the concurrent request-code handlers *)

\* The row a handler stored: the phone, code and expiry it computed, unverified.
HasRow(h) ==
  /\ loc[h].rowId \in RowIds
  /\ phoneVerifications[loc[h].rowId].phone = loc[h].phone
  /\ phoneVerifications[loc[h].rowId].code = loc[h].otp
  /\ phoneVerifications[loc[h].rowId].token = loc[h].token
  /\ phoneVerifications[loc[h].rowId].expires_at = loc[h].expires_at
  /\ phoneVerifications[loc[h].rowId].verified_at = NULL

\* C7: a request-code call that passed the cooldown guard has stored its row before
\* the provider is called, and answers success with that row stored whatever the
\* dispatch did: not configured, sent, rate limited or failed.
C7_SuccessOnceStored ==
  \A h \in Handlers :
    /\ pc[h] = "dispatch" => HasRow(h)
    /\ loc[h].outcome # "not_called" => HasRow(h)
    /\ pc[h] = "done" =>
         \/ loc[h].response = RateLimited /\ loc[h].rowId = 0
         \/ loc[h].response = Response(200, NoError, NoUser) /\ HasRow(h)

\* C7 witness: two finished calls, one whose SMS was sent and one whose dispatch
\* failed, with the same success response and each with its row stored.
C7_Witness ==
  \E h, g \in Handlers :
    /\ pc[h] = "done" /\ pc[g] = "done"
    /\ loc[h].outcome = "sent"
    /\ loc[g].outcome \in ErrorOutcomes
    /\ loc[h].response = Response(200, NoError, NoUser)
    /\ loc[g].response = loc[h].response
    /\ HasRow(h) /\ HasRow(g)

\* Two rows of one phone created less than 60 seconds apart, i stored before j.
ClosePair(i, j) ==
  /\ i < j
  /\ phoneVerifications[i].phone = phoneVerifications[j].phone
  /\ phoneVerifications[j].created_at - phoneVerifications[i].created_at < CooldownMs

\* C10: two rows of one phone less than 60 seconds apart come from a race only: the
\* handler of the later row did its cooldown lookup before the earlier row was
\* stored; and both handlers answer success.
C10_CloseRowsRaced ==
  \A h, g \in Handlers :
    (loc[h].rowId \in RowIds /\ loc[g].rowId \in RowIds /\ ClosePair(loc[h].rowId, loc[g].rowId))
    => /\ loc[g].snapshot < loc[h].rowId
       /\ pc[h] = "done" => loc[h].response = Response(200, NoError, NoUser)
       /\ pc[g] = "done" => loc[g].response = Response(200, NoError, NoUser)

\* C10 witness: both calls passed the lookup before either row was stored, the two
\* rows of the phone are less than 60 seconds apart, and both calls answered success.
C10_Witness ==
  \E h, g \in Handlers :
    /\ pc[h] = "done" /\ pc[g] = "done"
    /\ loc[h].rowId \in RowIds /\ loc[g].rowId \in RowIds
    /\ ClosePair(loc[h].rowId, loc[g].rowId)
    /\ loc[h].snapshot = 0 /\ loc[g].snapshot = 0
    /\ loc[h].response.status = 200 /\ loc[g].response.status = 200

---------------------------------------------------------------------------
(* Properties of the bearer-token endpoints *)

BearerOps ==
  {"update-name", "auth-profile", "update-basic-info", "update-preferences",
   "create-package", "create-portfolio", "submit-kyc", "profile"}

\* C8 (as claimed): a request, valid but for its token, whose token fails
\* verification is answered 401 and changes no stored record.
C8_BadTokenIs401 ==
  [][(/\ req'.op \in BearerOps
      /\ req'.bodyOk
      /\ req'.token # NoToken
      /\ ~JwtVerify(req'.token))
     => (/\ res'.status = 401
         /\ UNCHANGED <<users, profileTables, phoneVerifications>>)]_vars

\* C9 (as claimed): create-package, create-portfolio and submit-kyc by an authenticated
\* user without a CreatorProfile create no row and answer 404; and every Package,
\* PortfolioItem and KYC row references a stored CreatorProfile.
C9_NoProfileIs404 ==
  [][/\ (/\ req'.op \in {"create-package", "create-portfolio", "submit-kyc"}
         /\ req'.bodyOk
         /\ JwtVerify(req'.token)
         /\ FindCreatorProfile(req'.token.userId) = {})
        => (res'.status = 404 /\ UNCHANGED <<packages, portfolioItems, kycs>>)
     /\ \A i \in 1..Len(packages') :
          \E c \in 1..Len(creatorProfiles') : creatorProfiles'[c].id = packages'[i].creator_id
     /\ \A i \in 1..Len(portfolioItems') :
          \E c \in 1..Len(creatorProfiles') : creatorProfiles'[c].id = portfolioItems'[i].creator_id
     /\ \A i \in 1..Len(kycs') :
          \E c \in 1..Len(creatorProfiles') : creatorProfiles'[c].id = kycs'[i].creator_id]_vars

---------------------------------------------------------------------------
(* Properties of the rows of one phone *)

\* Rows of the phone that are unverified and unexpired at time t.
LiveRows(phone, t) ==
  {i \in RowIds : /\ phoneVerifications[i].phone = phone
                  /\ phoneVerifications[i].expires_at > t
                  /\ phoneVerifications[i].verified_at = NULL}

\* A newer code was requested for the phone: a live row with another code was
\* created after every row that carries this code.
Superseded(phone, code, t) ==
  \E j \in LiveRows(phone, t) :
    /\ phoneVerifications[j].code # code
    /\ \A i \in RowsOf(phone, code) :
         phoneVerifications[i].created_at < phoneVerifications[j].created_at

\* C11: on the local path, once a newer code has been requested for a phone, the
\* code of an older row of that phone, still unexpired and unverified, is not accepted.
C11_OnlyNewestCodeAccepted ==
  [][(/\ VerifyHandled
      /\ Superseded(req'.phone, req'.code, now)
      /\ \E outcome \in LocalOutcomes : VerifiedWith(outcome))
     => res'.status # 200]_vars

---------------------------------------------------------------------------
(* The phone-verification flow with names supplied, one request at a time *)

UserNames == {NoName, "Asha"}
\* The code of the stored rows and a six-character code no row carries.
UserCodes == ConcOtps \cup {"100000"}
\* A first login and a later one, after the first row expired.
UserInstants == {t \in Instants : t = 0 \/ t >= ExpiryMs}

NextUser ==
  \/ \E t \in UserInstants : Tick(t)
  \/ \E phone \in ValidPhones, otp \in ConcOtps, token \in OpaqueTokens :
       \E outcome \in StartOutcomes(phone) :
         SendPhoneVerificationCode(phone, otp, token, outcome)
  \/ \E phone \in AllPhones, code \in UserCodes, fullName \in UserNames :
       \E outcome \in CheckOutcomes(phone, code) :
         VerifyPhoneCode(phone, code, fullName, outcome)

SpecUser == Init /\ [][NextUser]_vars

\* Users of the phone in the User table after the step.
UsersOf(phone) == {u \in 1..Len(users') : users'[u].phone = phone}

\* What a successful verify-code with this fullName leaves in the User table.
FoundOrCreated(phone, fullName) ==
  /\ Cardinality(UsersOf(phone)) = 1
  /\ \A u \in UsersOf(phone) :
       /\ users'[u].phone_verified
       /\ res'.userId = GenerateToken(users'[u].id)
       /\ IF FindUserByPhone(phone) = {}
            THEN /\ Len(users') = Len(users) + 1
                 /\ users'[u].name = IF fullName # NoName THEN fullName ELSE "User"
            ELSE /\ Len(users') = Len(users)
                 /\ users'[u].last_login_at = now
                 /\ users'[u].name = IF fullName # NoName THEN fullName ELSE users[u].name
  /\ \A v \in UserIds : users[v].phone # phone => users'[v] = users[v]

\* C12: a successful verify-code, on either path, leaves exactly one User of the phone,
\* phone_verified, created with fullName or "User" if there was none, else with
\* last_login_at set and the name changed only by a supplied fullName, and the token is
\* bound to that user's id; a failed verify-code leaves the User table unchanged.
C12_UserFoundOrCreated ==
  [][(now' = now /\ req'.op = VerifyOp)
     => \A fullName \in UserNames, outcome \in CheckOutcomes(req'.phone, req'.code) :
          VerifyPhoneCode(req'.phone, req'.code, fullName, outcome)
          => IF res'.status = 200
               THEN FoundOrCreated(req'.phone, fullName)
               ELSE users' = users /\ res'.userId = NoUser]_vars

\* C12 witness: a verify-code has just succeeded for a user who logged in before and
\* was created with a supplied name, next to a user created with the default name.
C12_Witness ==
  /\ req.op = VerifyOp
  /\ res.status = 200
  /\ \E u, v \in UserIds :
       /\ users[u].phone = req.phone
       /\ res.userId = GenerateToken(users[u].id)
       /\ users[u].name = "Asha"
       /\ users[u].last_login_at = now
       /\ users[v].phone # req.phone
       /\ users[v].name = "User"

---------------------------------------------------------------------------
(* POST /verify-phone-code, handled concurrently: each handler runs from one *)
(* await to the next, and the provider and the database act between.         *)

VerifyPhones == {"+15551234567", "not-a-phone"}
VerifyCodes == ConcOtps \cup {"100000"}

VerifyLocals ==
  [phone |-> "", code |-> NoCode, fullName |-> NoName, local |-> FALSE, at |-> 0,
   rowId |-> 0, markAt |-> 0, userFound |-> NoUser, loginAt |-> 0,
   response |-> Response(0, NoError, NoUser)]

\* The request arrives and passes or fails validateRequest; the handler calls the
\* provider when it is configured, and otherwise issues the lookup with new Date().
VerifyReceive(h, phone, code, fullName) ==
  /\ pc[h] = "idle"
  /\ IF ~IsMobilePhone(phone) \/ ~IsLength6(code)
       THEN /\ pc' = [pc EXCEPT ![h] = "done"]
            /\ loc' = [loc EXCEPT ![h] = [@ EXCEPT !.phone = phone, !.code = code,
                 !.fullName = fullName, !.response = Response(400, "Validation failed", NoUser)]]
       ELSE /\ pc' = [pc EXCEPT ![h] = IF twilioConfigured THEN "check" ELSE "lookup"]
            /\ loc' = [loc EXCEPT ![h] = [@ EXCEPT !.phone = phone, !.code = code,
                 !.fullName = fullName, !.local = ~twilioConfigured, !.at = now]]
  /\ UNCHANGED <<now, twilioConfigured, phoneVerifications, users, profileTables, req, res>>

\* The provider's verification check returns or throws.
VerifyCheck(h, outcome) ==
  /\ pc[h] = "check"
  /\ IF TwilioVerification(outcome)
       THEN /\ pc' = [pc EXCEPT ![h] = "finduser"]
            /\ UNCHANGED loc
     ELSE IF TwilioDenied(outcome)
       THEN /\ pc' = [pc EXCEPT ![h] = "done"]
            /\ loc' = [loc EXCEPT ![h] = [@ EXCEPT
                 !.response = Response(400, "Invalid verification code", NoUser)]]
     ELSE /\ pc' = [pc EXCEPT ![h] = "lookup"]
          /\ loc' = [loc EXCEPT ![h] = [@ EXCEPT !.local = TRUE, !.at = now]]
  /\ UNCHANGED <<now, twilioConfigured, phoneVerifications, users, profileTables, req, res>>

\* The lookup reads the table; the handler answers 400, or issues the update of the
\* row found with verified_at: new Date().
VerifyLookup(h) ==
  /\ pc[h] = "lookup"
  /\ IF FindVerification(loc[h].phone, loc[h].code, loc[h].at) = {}
       THEN /\ pc' = [pc EXCEPT ![h] = "done"]
            /\ loc' = [loc EXCEPT ![h] = [@ EXCEPT
                 !.response = Response(400, "Invalid or expired verification code", NoUser)]]
       ELSE /\ pc' = [pc EXCEPT ![h] = "mark"]
            /\ \E i \in FindVerification(loc[h].phone, loc[h].code, loc[h].at) :
                 loc' = [loc EXCEPT ![h] = [@ EXCEPT !.rowId = i, !.markAt = now]]
  /\ UNCHANGED <<now, twilioConfigured, phoneVerifications, users, profileTables, req, res>>

\* The update by id takes effect, whatever the row's verified_at is by then; the
\* handler issues the user lookup.
VerifyMark(h) ==
  /\ pc[h] = "mark"
  /\ phoneVerifications' = MarkVerified(loc[h].rowId, loc[h].markAt)
  /\ pc' = [pc EXCEPT ![h] = "finduser"]
  /\ UNCHANGED <<now, twilioConfigured, users, profileTables, req, res, loc>>

\* user.findUnique returns; the handler issues the create, or the update with
\* last_login_at: new Date().
VerifyFindUser(h) ==
  /\ pc[h] = "finduser"
  /\ pc' = [pc EXCEPT ![h] = "saveuser"]
  /\ loc' = [loc EXCEPT ![h] = [@ EXCEPT
       !.userFound = IF FindUserByPhone(loc[h].phone) = {} THEN NoUser
                     ELSE users[FindOrCreateUserId(loc[h].phone)].id,
       !.loginAt = now]]
  /\ UNCHANGED <<now, twilioConfigured, phoneVerifications, users, profileTables, req, res>>

\* The create or the update takes effect and the handler answers with the token; a
\* create for a phone that got its user meanwhile violates the unique phone, and
\* the catch answers 500.
VerifySaveUser(h) ==
  /\ pc[h] = "saveuser"
  /\ pc' = [pc EXCEPT ![h] = "done"]
  /\ IF loc[h].userFound = NoUser /\ FindUserByPhone(loc[h].phone) # {}
       THEN /\ loc' = [loc EXCEPT ![h] = [@ EXCEPT
                 !.response = Response(500, "Phone verification failed", NoUser)]]
            /\ UNCHANGED users
     ELSE IF loc[h].userFound = NoUser
       THEN /\ users' = Append(users, NewUser(loc[h].phone, loc[h].fullName))
            /\ loc' = [loc EXCEPT ![h] = [@ EXCEPT
                 !.response = Response(200, NoError, GenerateToken(Len(users) + 1))]]
     ELSE /\ users' = [u \in UserIds |->
                         IF users[u].id = loc[h].userFound
                           THEN LoggedIn(users[u], loc[h].fullName, loc[h].loginAt)
                           ELSE users[u]]
          /\ loc' = [loc EXCEPT ![h] = [@ EXCEPT
               !.response = Response(200, NoError, GenerateToken(loc[h].userFound))]]
  /\ UNCHANGED <<now, twilioConfigured, phoneVerifications, profileTables, req, res>>

\* The table after one request-code of the phone at time 0.
StoredRows ==
  <<[id |-> 1, phone |-> "+15551234567", code |-> "482913", token |-> "a3f1",
     created_at |-> 0, expires_at |-> ExpiresAt(0), verified_at |-> NULL]>>

InitVerify ==
  /\ now = 0
  /\ twilioConfigured \in BOOLEAN
  /\ phoneVerifications = StoredRows
  /\ users \in {<<>>, RegisteredUsers(1)}
  /\ creatorProfiles = <<>>
  /\ packages = <<>>
  /\ portfolioItems = <<>>
  /\ kycs = <<>>
  /\ req = Request("none", "", NoCode)
  /\ res = Response(0, NoError, NoUser)
  /\ pc = [h \in Handlers |-> "idle"]
  /\ loc = [h \in Handlers |-> VerifyLocals]

NextVerify ==
  \/ \E t \in Instants : Tick(t)
  \/ \E h \in Handlers, phone \in VerifyPhones, code \in VerifyCodes, fullName \in FullNames :
       VerifyReceive(h, phone, code, fullName)
  \/ \E h \in Handlers, outcome \in {"approved", "pending", "error429", "error"} :
       VerifyCheck(h, outcome)
  \/ \E h \in Handlers : VerifyLookup(h)
  \/ \E h \in Handlers : VerifyMark(h)
  \/ \E h \in Handlers : VerifyFindUser(h)
  \/ \E h \in Handlers : VerifySaveUser(h)

SpecVerify == InitVerify /\ [][NextVerify]_vars

---------------------------------------------------------------------------
(* Properties of the concurrent verify-code handlers *)

\* The handler answered success after the database check selected a row.
LocalSuccess(h) ==
  /\ pc[h] = "done"
  /\ loc[h].local
  /\ loc[h].response.status = 200
  /\ loc[h].response.userId # NoUser

\* C14: the lookup and the update of the local check are separate steps: every lookup
\* selects a row that is unverified when it reads it, so two successes on one row
\* come only from both lookups running before either update; and a handler that
\* answered success locally has marked its row.
C14_LookupThenMark ==
  [][\A h \in Handlers :
       /\ (pc[h] = "lookup" /\ pc'[h] = "mark")
          => /\ loc'[h].rowId \in RowIds
             /\ phoneVerifications[loc'[h].rowId].verified_at = NULL
             /\ phoneVerifications[loc'[h].rowId].phone = loc[h].phone
             /\ phoneVerifications[loc'[h].rowId].code = loc[h].code
       /\ (pc'[h] = "done" /\ loc'[h].local /\ loc'[h].response.status = 200)
          => phoneVerifications'[loc'[h].rowId].verified_at # NULL]_vars

\* C14 witness: two calls with the same phone and code both answered success with a
\* session token, on the one row stored for that phone and code.
C14_Witness ==
  \E h, g \in Handlers :
    /\ h # g
    /\ LocalSuccess(h) /\ LocalSuccess(g)
    /\ loc[h].phone = loc[g].phone /\ loc[h].code = loc[g].code
    /\ loc[h].rowId = loc[g].rowId
    /\ Cardinality(RowsOf(loc[h].phone, loc[h].code)) = 1

---------------------------------------------------------------------------
(* Properties of the PhoneVerification log *)

\* The step keeps every row and the fields request-code wrote.
RowsKept ==
  /\ Len(phoneVerifications') >= Len(phoneVerifications)
  /\ \A i \in RowIds :
       /\ phoneVerifications'[i].id = phoneVerifications[i].id
       /\ phoneVerifications'[i].phone = phoneVerifications[i].phone
       /\ phoneVerifications'[i].code = phoneVerifications[i].code
       /\ phoneVerifications'[i].token = phoneVerifications[i].token
       /\ phoneVerifications'[i].created_at = phoneVerifications[i].created_at
       /\ phoneVerifications'[i].expires_at = phoneVerifications[i].expires_at

\* The rows whose verified_at the step changed.
Marked ==
  {i \in RowIds : phoneVerifications'[i].verified_at # phoneVerifications[i].verified_at}

\* Row i is the most recent of the rows carrying the handler's phone and code.
MostRecentOf(h, i) ==
  /\ i \in RowsOf(loc[h].phone, loc[h].code)
  /\ \A j \in RowsOf(loc[h].phone, loc[h].code) :
       phoneVerifications[j].verified_at = NULL
       => phoneVerifications[j].created_at <= phoneVerifications[i].created_at

\* C13: the PhoneVerification store is an append-only log: no step deletes a row or
\* changes its phone, code, token, created_at or expires_at, and verified_at changes
\* only from null to a timestamp, only by the update of a local check of verify-code,
\* and only on the one row that check selected, the most recent matching one.
C13_AppendOnlyLog ==
  [][/\ RowsKept
     /\ \A i \in Marked :
          /\ phoneVerifications[i].verified_at = NULL
          /\ phoneVerifications'[i].verified_at # NULL
          /\ Marked = {i}
          /\ \E h \in Handlers :
               /\ pc[h] = "mark" /\ pc'[h] = "finduser"
               /\ loc[h].local
               /\ loc[h].rowId = i
               /\ MostRecentOf(h, i)]_vars

=============================================================================
